---- MODULE Spec2Model ----
(***************************************************************************)
(* Model of server/events/openrouter_summarizer.go: SummarizePlans.        *)
(*                                                                         *)
(* A Go string is a finite sequence of characters, written here as a tuple *)
(* of one-character strings (<<>> is "").  The inputs are text: valid      *)
(* UTF-8, which encoding/json carries unchanged.  An invocation is a       *)
(* goroutine running SummarizePlans; its local variables are the p-th      *)
(* components of the state functions below.  One request on the network is *)
(* one call of client.Do.                                                  *)
(***************************************************************************)
EXTENDS Integers, Sequences, FiniteSets, TLC

\* ---------------------------------------------------------------- bounds
MaxPlans == 2
MaxContentLen == 3
MaxChoices == 2
NumProcs == 2

Procs == 1..NumProcs

\* ------------------------------------------------------------- constants
openRouterURL == "https://openrouter.ai/api/v1/chat/completions"
openRouterAPIKeyEnv == "OPENROUTER_API_KEY"
openRouterSystemPromptEnv == "OPENROUTER_TERRAFORM_PLAN_SUMMARIZER_SYSTEM_PROMPT"
openRouterTimeout == 30
defaultSystemPrompt == <<"You are giving a summary of the changes in this terraform plan to a senior engineer. [...]">>
openRouterModel == "anthropic/claude-sonnet-4.5"
openRouterReferer == "https://github.com/memfault/atlantis-openrouter-summarizer"
StatusOK == 200

\* --------------------------------------------------------------- strings
\* strings.Join(elems, sep)
RECURSIVE Join(_, _)
Join(elems, sep) ==
  IF Len(elems) = 0 THEN <<>>
  ELSE IF Len(elems) = 1 THEN elems[1]
  ELSE elems[1] \o sep \o Join(Tail(elems), sep)

\* a separator that lost a line feed on each side
ShortSeparator == <<"\n", "-", "-", "-", "\n">>

\* the separator of line 70: "\n\n---\n\n"
PlanSeparator == <<"\n", "\n", "-", "-", "-", "\n", "\n">>

\* unicode.IsSpace on the characters below U+0100; "VT", "NEL" and "NBSP" name
\* the characters U+000B, U+0085 and U+00A0
IsSpace(c) == c \in {" ", "\t", "\n", "VT", "\f", "\r", "NEL", "NBSP"}

RECURSIVE TrimLeft(_)
TrimLeft(s) ==
  IF Len(s) > 0 /\ IsSpace(s[1]) THEN TrimLeft(Tail(s)) ELSE s

RECURSIVE TrimRight(_)
TrimRight(s) ==
  IF Len(s) > 0 /\ IsSpace(s[Len(s)]) THEN TrimRight(SubSeq(s, 1, Len(s) - 1)) ELSE s

\* strings.TrimLeft in the place of strings.TrimSpace
TrimLeading(s) == TrimLeft(s)

\* strings.TrimSpace(s)
TrimSpace(s) == TrimRight(TrimLeft(s))

\* ------------------------------------------------------------------ JSON
\* A JSON document as encoding/json sees it.  A field of an object is absent,
\* null, a value of the type the Go field takes, or a value of another JSON
\* type ("bad": a number where a string is expected, and so on).
JAbsent == [k |-> "absent"]
JNull == [k |-> "null"]
JBad == [k |-> "bad"]
JStr(s) == [k |-> "str", v |-> s]
JArr(a) == [k |-> "arr", v |-> a]
\* a body that is not JSON at all
Garbage == [k |-> "garbage"]

\* openRouterMessage as it arrives: {"content": c}
JMessage(c) == [k |-> "obj", content |-> c]
\* openRouterChoice as it arrives: {"message": m}
JChoice(m) == [k |-> "obj", message |-> m]
\* openRouterError as it arrives: {"message": m, "type": t}
JError(m, t) == [k |-> "obj", message |-> m, type |-> t]
\* openRouterResponse as it arrives: {"choices": c, "error": e}
JResponse(c, e) == [k |-> "obj", choices |-> c, error |-> e]

\* the zero values of the Go types
NilError == [k |-> "nil"]
ZeroMessage == [Content |-> <<>>]
ZeroChoice == [Message |-> ZeroMessage]
ZeroResponse == [Choices |-> <<>>, Error |-> NilError]

\* A string field: null and absent leave the zero value.
DecodeString(j) == IF j.k = "str" THEN j.v ELSE <<>>
StringMismatch(j) == j.k = "bad"

DecodeMessage(j) ==
  IF j.k = "obj" THEN [Content |-> DecodeString(j.content)] ELSE ZeroMessage
MessageMismatch(j) ==
  j.k = "bad" \/ (j.k = "obj" /\ StringMismatch(j.content))

DecodeChoice(j) ==
  IF j.k = "obj" THEN [Message |-> DecodeMessage(j.message)] ELSE ZeroChoice
ChoiceMismatch(j) ==
  j.k = "bad" \/ (j.k = "obj" /\ MessageMismatch(j.message))

\* A null element of a JSON array still is an element of the slice.
DecodeChoices(j) ==
  IF j.k = "arr" THEN [i \in 1..Len(j.v) |-> DecodeChoice(j.v[i])] ELSE <<>>
ChoicesMismatch(j) ==
  j.k = "bad" \/ (j.k = "arr" /\ \E i \in 1..Len(j.v) : ChoiceMismatch(j.v[i]))

\* an error counted only when it carries a message
DecodeErrorWithMessage(j) ==
  IF j.k = "obj" /\ DecodeString(j.message) # <<>>
  THEN [k |-> "ptr", Message |-> DecodeString(j.message), Type |-> DecodeString(j.type)]
  ELSE NilError

\* Error *openRouterError: null and absent leave the pointer nil.
DecodeError(j) ==
  IF j.k = "obj"
  THEN [k |-> "ptr", Message |-> DecodeString(j.message), Type |-> DecodeString(j.type)]
  ELSE NilError
ErrorMismatch(j) ==
  j.k = "bad" \/ (j.k = "obj" /\ (StringMismatch(j.message) \/ StringMismatch(j.type)))

\* json.Unmarshal(body, &openRouterResp): err is a syntax error (the body is
\* not JSON) or a type mismatch anywhere in the document; a body of null
\* leaves the struct at its zero value.
UnmarshalErr(body) ==
  \/ body.k \in {"garbage", "bad"}
  \/ body.k = "obj" /\ (ChoicesMismatch(body.choices) \/ ErrorMismatch(body.error))

Unmarshal(body) ==
  IF UnmarshalErr(body) \/ body.k # "obj"
  THEN [err |-> UnmarshalErr(body), v |-> ZeroResponse]
  ELSE [err |-> FALSE,
        v |-> [Choices |-> DecodeChoices(body.choices), Error |-> DecodeError(body.error)]]

\* json.Marshal(reqBody): the struct's fields under their json names.  A
\* struct of strings always encodes, so err is nil.
Marshal(reqBody) ==
  [err |-> FALSE,
   data |-> [model |-> reqBody.Model,
             messages |-> [i \in 1..Len(reqBody.Messages) |->
                             [role |-> reqBody.Messages[i].Role,
                              content |-> reqBody.Messages[i].Content]]]]

\* http.NewRequest("POST", openRouterURL, body) and the three Header.Set
\* calls; the method and the URL are constants that parse, so err is nil.
NewRequest(jsonData, apiKey) ==
  [err |-> FALSE,
   req |-> [Method |-> "POST", URL |-> openRouterURL, Body |-> jsonData,
            Header |-> [Authorization |-> <<"Bearer ">> \o apiKey,
                        ContentType |-> "application/json",
                        HTTPReferer |-> openRouterReferer]]]

\* ----------------------------------------------------------------- state
VARIABLES
  environ,           \* the environment of the process
  pc,                \* where each invocation stands
  terraformOutputs,  \* the argument of the invocation
  apiKey,            \* os.Getenv(openRouterAPIKeyEnv), once read
  systemPrompt,      \* the system prompt, once resolved
  network,           \* the requests each invocation has handed to client.Do
  elapsed,           \* seconds since client.Do started, while the exchange runs
  resp,              \* the response client.Do returned
  body,              \* the bytes io.ReadAll returned
  log,               \* what the invocation wrote to its logger
  result             \* the returned string

vars == <<environ, pc, terraformOutputs, apiKey, systemPrompt, network, elapsed, resp, body, log, result>>

NoResponse == [k |-> "none"]
NoBody == [k |-> "none"]

\* logger.Debug / logger.Warn
Debug(msg, args) == [level |-> "debug", msg |-> msg, args |-> args]
\* a failure logged at debug level
WarnAtDebug(msg, args) == Debug(msg, args)
Warn(msg, args) == [level |-> "warn", msg |-> msg, args |-> args]

\* body as a variable of the package, one for all calls
Shared(p) == 1

\* `body, err := io.ReadAll(resp.Body)` declares body in the frame of the call
Local(p) == p

\* a client built without its Timeout field
NoTimeout == 0 * openRouterTimeout

\* &http.Client{Timeout: openRouterTimeout}; a Timeout of zero means none
ClientTimeout == openRouterTimeout

\* os.Getenv(name): the value, or "" when the variable is not set
Getenv(name) == IF environ[name].set THEN environ[name].value ELSE <<>>

\* The state before any call; the process was started with one of Envs.
InitWith(Envs) ==
  /\ environ \in Envs
  /\ pc = [p \in Procs |-> "idle"]
  /\ terraformOutputs = [p \in Procs |-> <<>>]
  /\ apiKey = [p \in Procs |-> <<>>]
  /\ systemPrompt = [p \in Procs |-> <<>>]
  /\ network = [p \in Procs |-> <<>>]
  /\ elapsed = [p \in Procs |-> 0]
  /\ resp = [p \in Procs |-> NoResponse]
  /\ body = [p \in Procs |-> NoBody]
  /\ log = [p \in Procs |-> <<>>]
  /\ result = [p \in Procs |-> <<>>]

\* `return s` after the log lines `entries`
ReturnWith(p, entries, s) ==
  /\ log' = [log EXCEPT ![p] = log[p] \o entries]
  /\ result' = [result EXCEPT ![p] = s]
  /\ pc' = [pc EXCEPT ![p] = "done"]

\* the guard of lines 64-67 left out
NeverSkip(key) == FALSE

\* line 64: apiKey == ""
ApiKeyEmpty(key) == key = <<>>

\* lines 73-76
ResolveSystemPrompt(env) == IF env = <<>> THEN defaultSystemPrompt ELSE env

\* lines 79-91
BuildRequest(prompt, combinedOutput) ==
  [Model |-> openRouterModel,
   Messages |-> << [Role |-> "system", Content |-> prompt],
                   [Role |-> "user", Content |-> combinedOutput] >>]

\* Lines 57-117: the guards, the request, and the start of client.Do.
Invoke(p, Outputs) ==
  /\ pc[p] = "idle"
  /\ \E outs \in Outputs :
       /\ terraformOutputs' = [terraformOutputs EXCEPT ![p] = outs]
       /\ IF Len(outs) = 0
          THEN /\ ReturnWith(p, <<Debug("no terraform outputs to summarize", <<>>)>>, <<>>)
               /\ UNCHANGED <<apiKey, systemPrompt, network>>
          ELSE LET key == Getenv(openRouterAPIKeyEnv) IN
            /\ apiKey' = [apiKey EXCEPT ![p] = key]
            /\ IF ApiKeyEmpty(key)
               THEN /\ ReturnWith(p, <<Debug("OPENROUTER_API_KEY not set, skipping plan summarization", <<>>)>>, <<>>)
                    /\ UNCHANGED <<systemPrompt, network>>
               ELSE
                 LET combinedOutput == Join(outs, PlanSeparator)
                     prompt == ResolveSystemPrompt(Getenv(openRouterSystemPromptEnv))
                     reqBody == BuildRequest(prompt, combinedOutput)
                     jsonData == Marshal(reqBody)
                     made == NewRequest(jsonData.data, key)
                 IN /\ systemPrompt' = [systemPrompt EXCEPT ![p] = prompt]
                    /\ IF jsonData.err
                       THEN /\ ReturnWith(p, <<Warn("failed to marshal OpenRouter request: %s", <<>>)>>, <<>>)
                            /\ UNCHANGED network
                       ELSE IF made.err
                       THEN /\ ReturnWith(p, <<Warn("failed to create OpenRouter request: %s", <<>>)>>, <<>>)
                            /\ UNCHANGED network
                       ELSE /\ log' = [log EXCEPT ![p] = Append(log[p], Debug("sending plan to OpenRouter for summarization", <<>>))]
                            /\ network' = [network EXCEPT ![p] = Append(network[p], made.req)]
                            /\ pc' = [pc EXCEPT ![p] = "Do"]
                            /\ UNCHANGED result
  /\ UNCHANGED <<environ, elapsed, resp, body>>

\* One second passes while the exchange of p runs.
Tick(p) ==
  /\ pc[p] \in {"Do", "ReadAll"}
  /\ elapsed[p] < ClientTimeout
  /\ elapsed' = [elapsed EXCEPT ![p] = elapsed[p] + 1]
  /\ UNCHANGED <<environ, pc, terraformOutputs, apiKey, systemPrompt, network, resp, body, log, result>>

\* Client.Timeout fires: client.Do (line 117) or io.ReadAll (line 125), the
\* one that is running, returns the timeout as its error.
Deadline(p) ==
  /\ pc[p] \in {"Do", "ReadAll"}
  /\ ClientTimeout > 0
  /\ elapsed[p] >= ClientTimeout
  /\ ReturnWith(p,
       <<Warn(IF pc[p] = "Do" THEN "failed to send request to OpenRouter: %s"
              ELSE "failed to read OpenRouter response: %s", <<"timeout">>)>>, <<>>)
  /\ elapsed' = [elapsed EXCEPT ![p] = 0]
  /\ UNCHANGED <<environ, terraformOutputs, apiKey, systemPrompt, network, resp, body>>

\* errors of the transport other than the timeout
TransportErrors == {"connection refused", "connection reset"}

\* client.Do called again after a transport error
ClientDoRetrying(p, Statuses) ==
  /\ pc[p] = "Do"
  /\ elapsed[p] < ClientTimeout \/ ClientTimeout = 0
  /\ \/ \E e \in TransportErrors :
          /\ IF Len(network[p]) < 2
             THEN /\ network' = [network EXCEPT ![p] = Append(network[p], network[p][1])]
                  /\ log' = [log EXCEPT ![p] = Append(log[p], Warn("failed to send request to OpenRouter: %s", <<e>>))]
                  /\ UNCHANGED <<pc, result>>
             ELSE /\ ReturnWith(p, <<Warn("failed to send request to OpenRouter: %s", <<e>>)>>, <<>>)
                  /\ UNCHANGED network
          /\ UNCHANGED <<resp, elapsed>>
     \/ \E st \in Statuses :
          /\ resp' = [resp EXCEPT ![p] = [k |-> "resp", StatusCode |-> st]]
          /\ pc' = [pc EXCEPT ![p] = "ReadAll"]
          /\ UNCHANGED <<log, result, elapsed, network>>
  /\ UNCHANGED <<environ, terraformOutputs, apiKey, systemPrompt, body>>

\* Lines 117-122: client.Do returns before the timeout, with an error or with
\* the status line and headers of a response.
ClientDo(p, Statuses) ==
  /\ pc[p] = "Do"
  /\ elapsed[p] < ClientTimeout \/ ClientTimeout = 0
  /\ \/ \E e \in TransportErrors :
          /\ ReturnWith(p, <<Warn("failed to send request to OpenRouter: %s", <<e>>)>>, <<>>)
          /\ elapsed' = [elapsed EXCEPT ![p] = 0]
          /\ UNCHANGED resp
     \/ \E st \in Statuses :
          /\ resp' = [resp EXCEPT ![p] = [k |-> "resp", StatusCode |-> st]]
          /\ pc' = [pc EXCEPT ![p] = "ReadAll"]
          /\ UNCHANGED <<log, result, elapsed>>
  /\ UNCHANGED <<environ, terraformOutputs, apiKey, systemPrompt, network, body>>

\* Lines 125-129: io.ReadAll returns before the timeout, with an error or
\* with the whole body.
ReadAll(p, Bodies) ==
  /\ pc[p] = "ReadAll"
  /\ elapsed[p] < ClientTimeout \/ ClientTimeout = 0
  /\ \/ \E e \in TransportErrors :
          /\ ReturnWith(p, <<Warn("failed to read OpenRouter response: %s", <<e>>)>>, <<>>)
          /\ UNCHANGED body
     \/ \E b \in Bodies :
          /\ body' = [body EXCEPT ![Local(p)] = b]
          /\ pc' = [pc EXCEPT ![p] = "Extract"]
          /\ UNCHANGED <<log, result>>
  /\ elapsed' = [elapsed EXCEPT ![p] = 0]
  /\ UNCHANGED <<environ, terraformOutputs, apiKey, systemPrompt, network, resp>>

\* the last choice in the place of the first
LastChoiceContent(openRouterResp) ==
  openRouterResp.Choices[Len(openRouterResp.Choices)].Message.Content

\* choices[0].message.content of line 156
FirstChoiceContent(openRouterResp) == openRouterResp.Choices[1].Message.Content

\* Lines 137-163: the log line written and the string returned for a body
\* that came with status 200.
ExtractBody(b) ==
  LET parsed == Unmarshal(b)
      openRouterResp == parsed.v
      summary == TrimSpace(FirstChoiceContent(openRouterResp))
  IN IF parsed.err
     THEN [log |-> <<Warn("failed to parse OpenRouter response: %s", <<>>)>>, ret |-> <<>>]
     ELSE IF openRouterResp.Error # NilError
     THEN [log |-> <<Warn("OpenRouter API error: %s (type: %s)",
                          <<openRouterResp.Error.Message, openRouterResp.Error.Type>>)>>,
           ret |-> <<>>]
     ELSE IF Len(openRouterResp.Choices) = 0
     THEN [log |-> <<Warn("OpenRouter response contained no choices", <<>>)>>, ret |-> <<>>]
     ELSE IF summary = <<>>
     THEN [log |-> <<Warn("OpenRouter returned empty summary", <<>>)>>, ret |-> <<>>]
     ELSE [log |-> <<Debug("successfully received summary from OpenRouter", <<>>)>>, ret |-> summary]

\* the status check of lines 131-135 left out
ExtractAnyStatus(StatusCode, b) == ExtractBody(b)

\* Lines 131-163: the status check, then the body.
Extract(StatusCode, b) ==
  IF StatusCode # StatusOK
  THEN [log |-> <<Warn("OpenRouter API returned status %d: %s", <<StatusCode, b>>)>>, ret |-> <<>>]
  ELSE ExtractBody(b)

\* Lines 131-163 run by invocation p.
ExtractSummary(p) ==
  /\ pc[p] = "Extract"
  /\ LET out == Extract(resp[p].StatusCode, body[Local(p)])
     IN ReturnWith(p, out.log, out.ret)
  /\ UNCHANGED <<environ, terraformOutputs, apiKey, systemPrompt, network, elapsed, resp, body>>

\* The caller takes the result; the frame of the call is gone.
Return(p) ==
  /\ pc[p] = "done"
  /\ pc' = [pc EXCEPT ![p] = "idle"]
  /\ terraformOutputs' = [terraformOutputs EXCEPT ![p] = <<>>]
  /\ apiKey' = [apiKey EXCEPT ![p] = <<>>]
  /\ systemPrompt' = [systemPrompt EXCEPT ![p] = <<>>]
  /\ network' = [network EXCEPT ![p] = <<>>]
  /\ resp' = [resp EXCEPT ![p] = NoResponse]
  /\ body' = [body EXCEPT ![p] = NoBody]
  /\ log' = [log EXCEPT ![p] = <<>>]
  /\ result' = [result EXCEPT ![p] = <<>>]
  /\ UNCHANGED <<environ, elapsed>>

\* --------------------------------------------------------------- inputs
RECURSIVE SeqsUpTo(_, _)
\* the sequences over S of length at most n
SeqsUpTo(S, n) ==
  IF n = 0 THEN {<<>>}
  ELSE LET R == SeqsUpTo(S, n - 1)
       IN R \cup {Append(r, x) : r \in {t \in R : Len(t) = n - 1}, x \in S}

PlanTexts == {<<>>, <<"a">>, <<"b">>, <<"a", "\n">>}
AllOutputs == SeqsUpTo(PlanTexts, MaxPlans)
FewOutputs == {<<>>, << <<"a">> >>, << <<"a">>, <<"b">> >>}

\* a variable of the environment: not set, or set to a value
Unset == [set |-> FALSE, value |-> <<>>]
Set(v) == [set |-> TRUE, value |-> v]
Environ(key, prompt) ==
  (openRouterAPIKeyEnv :> key) @@ (openRouterSystemPromptEnv :> prompt)
AllEnvs ==
  {Environ(k, q) : k \in {Unset, Set(<<>>), Set(<<"k">>)},
                   q \in {Unset, Set(<<>>), Set(<<"X">>)}}
FewEnvs == {Environ(Unset, Unset), Environ(Set(<<"k">>), Unset), Environ(Set(<<"k">>), Set(<<"X">>))}
StatusCodes == {200, 201, 500}

ContentStrings ==
  SeqsUpTo({"s", " "}, MaxContentLen) \cup {<<"\n", "s", "\t">>, <<"NBSP", "s", "\r", "\n">>}

ContentVals(S) == {JAbsent, JNull, JBad} \cup {JStr(c) : c \in S}
MessageVals(S) == {JAbsent, JNull, JBad} \cup {JMessage(c) : c \in ContentVals(S)}
ChoiceVals(S) == {JNull, JBad} \cup {JChoice(m) : m \in MessageVals(S)}

FirstChoices == ChoiceVals(ContentStrings)
LaterChoices == {JNull, JBad, JChoice(JMessage(JStr(<<"t">>)))}
ChoiceLists ==
  {<<>>} \cup {<<f>> \o t : f \in FirstChoices, t \in SeqsUpTo(LaterChoices, MaxChoices - 1)}
ChoicesVals == {JAbsent, JNull, JBad} \cup {JArr(l) : l \in ChoiceLists}
ErrorVals ==
  {JAbsent, JNull, JBad, JError(JAbsent, JAbsent),
   JError(JStr(<<"bad key">>), JStr(<<"auth">>))}

ResponseBodies ==
  {Garbage, JNull, JBad} \cup {JResponse(c, e) : c \in ChoicesVals, e \in ErrorVals}

FewBodies ==
  { Garbage,
    JResponse(JArr(<<>>), JNull),
    JResponse(JArr(<<JChoice(JMessage(JStr(<<" ", "s">>)))>>), JAbsent),
    JResponse(JArr(<<JChoice(JMessage(JStr(<<"t">>)))>>), JNull) }

\* -------------------------------------------------------- specifications
\* One invocation at a time, every response.
Next ==
  \E p \in {1} :
    \/ Invoke(p, FewOutputs)
    \/ Tick(p)
    \/ Deadline(p)
    \/ ClientDo(p, StatusCodes)
    \/ ReadAll(p, ResponseBodies)
    \/ ExtractSummary(p)
    \/ Return(p)

Init == InitWith(FewEnvs)

Spec == Init /\ [][Next]_vars

\* One invocation at a time, every input.
NextPlans ==
  \E p \in {1} :
    \/ Invoke(p, AllOutputs)
    \/ Tick(p)
    \/ Deadline(p)
    \/ ClientDo(p, StatusCodes)
    \/ ReadAll(p, FewBodies)
    \/ ExtractSummary(p)
    \/ Return(p)

InitPlans == InitWith(AllEnvs)

SpecPlans == InitPlans /\ [][NextPlans]_vars

\* Time passes and a timer that is due fires; the rest of the function is
\* straight-line code that runs once scheduled.  Nothing is assumed of the
\* network: no response need ever arrive.
Fairness ==
  \A p \in Procs :
    /\ WF_vars(Tick(p))
    /\ WF_vars(Deadline(p))
    /\ WF_vars(ExtractSummary(p))

SpecTimeout == InitPlans /\ [][NextPlans]_vars /\ Fairness

\* Concurrent invocations.
NextConcurrent ==
  \E p \in Procs :
    \/ Invoke(p, FewOutputs)
    \/ ClientDo(p, {200, 500})
    \/ ReadAll(p, FewBodies)
    \/ ExtractSummary(p)
    \/ Return(p)

SpecConcurrent == Init /\ [][NextConcurrent]_vars

\* ---------------------------------------------------------------- claims
Last(s) == s[Len(s)]
Returned(p) == pc[p] = "done"
WarnLines(p) == {i \in 1..Len(log[p]) : log[p][i].level = "warn"}

\* the API-key variable is unset or set to ""
KeyMissing ==
  ~environ[openRouterAPIKeyEnv].set \/ environ[openRouterAPIKeyEnv].value = <<>>

\* the invocation stopped at one of the two guards of lines 58-67
Disabled(p) == Len(terraformOutputs[p]) = 0 \/ KeyMissing

\* C1: a request is on the network only for a non-empty input and a non-empty
\* API key; an invocation with an empty input (whatever the key) or with the
\* key unset or empty returns "" and has sent nothing.
NoRequestWhenDisabled ==
  \A p \in Procs :
    /\ network[p] # <<>> => Len(terraformOutputs[p]) > 0 /\ ~KeyMissing
    /\ Returned(p) /\ Disabled(p) => result[p] = <<>> /\ network[p] = <<>>

\* an invocation with plans to summarize returned while the key was set to ""
NoRequestWhenDisabledWitness ==
  \E p \in Procs :
    /\ Returned(p)
    /\ Len(terraformOutputs[p]) = MaxPlans
    /\ environ[openRouterAPIKeyEnv] = Set(<<>>)
    /\ network[p] = <<>>

\* the fields of a body as the upstream wrote them
ErrorPresent(b) == b.k = "obj" /\ b.error.k \notin {"absent", "null"}
ChoicesOf(b) == IF b.k = "obj" /\ b.choices.k = "arr" THEN b.choices.v ELSE <<>>
ContentOf(c) ==
  IF c.k = "obj" /\ c.message.k = "obj" /\ c.message.content.k = "str"
  THEN c.message.content.v ELSE <<>>

\* r is s without its leading and trailing white space
IsTrimOf(r, s) ==
  \E i \in 0..Len(s) : \E j \in i..Len(s) :
    /\ r = SubSeq(s, i + 1, j)
    /\ \A n \in 1..i : IsSpace(s[n])
    /\ \A n \in (j + 1)..Len(s) : IsSpace(s[n])
    /\ r # <<>> => ~IsSpace(r[1]) /\ ~IsSpace(r[Len(r)])

\* the invocation got a body with status 200 that decoded
Decoded(p) ==
  /\ body[p] # NoBody
  /\ resp[p].StatusCode = 200
  /\ ~UnmarshalErr(body[p])

\* one of the failures of the function, read off the state of the invocation
Failed(p) ==
  \/ Disabled(p)
  \/ resp[p] = NoResponse
  \/ body[p] = NoBody
  \/ resp[p].StatusCode # 200
  \/ UnmarshalErr(body[p])
  \/ ErrorPresent(body[p])
  \/ ChoicesOf(body[p]) = <<>>
  \/ \A n \in 1..Len(ContentOf(ChoicesOf(body[p])[1])) : IsSpace(ContentOf(ChoicesOf(body[p])[1])[n])

\* C2: an invocation that has returned has logged; a failed one has returned
\* "" and its last log line is at debug level for the two disabled-feature
\* conditions and at warn level for every other failure; one that returned a
\* summary has logged no warning.
FailuresDegradeToEmpty ==
  \A p \in Procs :
    Returned(p) =>
      /\ Len(log[p]) > 0
      /\ Failed(p) =>
           /\ result[p] = <<>>
           /\ Last(log[p]).level = (IF Disabled(p) THEN "debug" ELSE "warn")
           /\ Disabled(p) => WarnLines(p) = {}
      /\ result[p] # <<>> => WarnLines(p) = {}
      /\ result[p] = <<>> => Failed(p)

\* a response with no choices was answered by a warning and ""
FailuresDegradeToEmptyWitness ==
  \E p \in Procs :
    /\ Returned(p)
    /\ body[p] # NoBody
    /\ resp[p].StatusCode = 200
    /\ body[p] = JResponse(JArr(<<>>), JNull)
    /\ Last(log[p]).level = "warn"
    /\ result[p] = <<>>

\* C3: for a decoded body whose error field is present and not null the
\* result is "" and the last log line is the API-error warning, whatever
\* choices holds; an absent or null error field logs no API-error line.
ApiErrorTakesPriority ==
  \A p \in Procs :
    Returned(p) /\ Decoded(p) =>
      /\ ErrorPresent(body[p]) =>
           /\ result[p] = <<>>
           /\ Last(log[p]).level = "warn"
           /\ Last(log[p]).msg = "OpenRouter API error: %s (type: %s)"
      /\ ~ErrorPresent(body[p]) =>
           \A i \in 1..Len(log[p]) : log[p][i].msg # "OpenRouter API error: %s (type: %s)"

\* an error object beside a first choice with non-blank content
ApiErrorTakesPriorityWitness ==
  \E p \in Procs :
    /\ Returned(p)
    /\ Decoded(p)
    /\ ErrorPresent(body[p])
    /\ ChoicesOf(body[p]) # <<>>
    /\ ContentOf(ChoicesOf(body[p])[1]) = <<" ", "s">>
    /\ result[p] = <<>>

\* C4: for a decoded body with no error object and at least one choice the
\* result is the content of the first choice without its surrounding white
\* space, whatever the later choices hold; when nothing is left the result is ""
\* and the last log line is the empty-summary warning.
FirstChoiceTrimmed ==
  \A p \in Procs :
    Returned(p) /\ Decoded(p) /\ ~ErrorPresent(body[p]) /\ ChoicesOf(body[p]) # <<>> =>
      /\ IsTrimOf(result[p], ContentOf(ChoicesOf(body[p])[1]))
      /\ result[p] = <<>> =>
           /\ Last(log[p]).level = "warn"
           /\ Last(log[p]).msg = "OpenRouter returned empty summary"

\* " s " in the first choice and another text in the second
FirstChoiceTrimmedWitness ==
  \E p \in Procs :
    /\ Returned(p)
    /\ Decoded(p)
    /\ ~ErrorPresent(body[p])
    /\ Len(ChoicesOf(body[p])) >= 2
    /\ ContentOf(ChoicesOf(body[p])[1]) = <<" ", "s", " ">>
    /\ ContentOf(ChoicesOf(body[p])[2]) = <<"t">>
    /\ result[p] = <<"s">>

\* the plan texts joined from the left with the separator "\n\n---\n\n"
JoinedPlans(outs) ==
  LET F[i \in 1..Len(outs)] ==
        IF i = 1 THEN outs[1]
        ELSE F[i - 1] \o <<"\n", "\n", "-", "-", "-", "\n", "\n">> \o outs[i]
  IN F[Len(outs)]

\* the system prompt the environment asks for
PromptAskedFor ==
  IF environ[openRouterSystemPromptEnv].set /\ environ[openRouterSystemPromptEnv].value # <<>>
  THEN environ[openRouterSystemPromptEnv].value
  ELSE defaultSystemPrompt

\* C5: every request on the network carries the fixed model and exactly two
\* messages: the system message with the override of the environment when
\* that is non-empty and the default text otherwise, then the user message
\* with the plan texts joined in input order by "\n\n---\n\n".
RequestPayload ==
  \A p \in Procs : \A i \in 1..Len(network[p]) :
    LET sent == network[p][i].Body
    IN /\ sent.model = "anthropic/claude-sonnet-4.5"
       /\ Len(sent.messages) = 2
       /\ sent.messages[1].role = "system"
       /\ sent.messages[1].content = PromptAskedFor
       /\ sent.messages[2].role = "user"
       /\ sent.messages[2].content = JoinedPlans(terraformOutputs[p])

\* a request for the most plans, sent while the prompt variable is set to ""
RequestPayloadWitness ==
  \E p \in Procs :
    /\ Len(network[p]) = 1
    /\ Len(terraformOutputs[p]) = MaxPlans
    /\ terraformOutputs[p][1] # terraformOutputs[p][2]
    /\ environ[openRouterSystemPromptEnv] = Set(<<>>)

\* C6: for a status other than 200 the result is "" and the last log line is
\* the warning that carries the status code and the raw body, whatever the
\* body holds.
Non200IsFailure ==
  \A p \in Procs :
    Returned(p) /\ body[p] # NoBody /\ resp[p].StatusCode # 200 =>
      /\ result[p] = <<>>
      /\ Last(log[p]).level = "warn"
      /\ Last(log[p]).msg = "OpenRouter API returned status %d: %s"
      /\ Last(log[p]).args = <<resp[p].StatusCode, body[p]>>

\* status 500 with a well-formed completion whose first choice is not blank
Non200IsFailureWitness ==
  \E p \in Procs :
    /\ Returned(p)
    /\ body[p] # NoBody
    /\ resp[p].StatusCode = 500
    /\ ~UnmarshalErr(body[p])
    /\ ~ErrorPresent(body[p])
    /\ ChoicesOf(body[p]) # <<>>
    /\ ContentOf(ChoicesOf(body[p])[1]) = <<"s">>
    /\ result[p] = <<>>

\* C7: no invocation has more than one request on the network, and one that
\* passed the two guards has exactly one, from the moment it passed them
\* until it returns, whatever failed in between.
ExactlyOneRequest ==
  \A p \in Procs :
    /\ Len(network[p]) <= 1
    /\ pc[p] # "idle" /\ ~Disabled(p) => Len(network[p]) = 1

\* the transport failed and the invocation returned with its one request sent
ExactlyOneRequestWitness ==
  \E p \in Procs :
    /\ Returned(p)
    /\ ~Disabled(p)
    /\ resp[p] = NoResponse
    /\ Last(log[p]).msg = "failed to send request to OpenRouter: %s"
    /\ Len(network[p]) = 1

\* the exchange of p is running
Waiting(p) == pc[p] \in {"Do", "ReadAll"}

\* C8: every invocation returns; once the timeout has run out on the exchange
\* the only step left to the invocation is to log a warning and return "".
EventuallyReturns ==
  /\ \A p \in Procs : (pc[p] # "idle") ~> Returned(p)
  /\ [][\A p \in Procs :
          Waiting(p) /\ elapsed[p] >= openRouterTimeout /\ pc'[p] # pc[p] =>
            /\ Returned(p)'
            /\ result'[p] = <<>>
            /\ Last(log'[p]).level = "warn"]_vars

\* the timeout ran out while the body was being read
EventuallyReturnsWitness ==
  \E p \in Procs :
    /\ Returned(p)
    /\ resp[p] # NoResponse
    /\ body[p] = NoBody
    /\ Last(log[p]).args = <<"timeout">>
    /\ result[p] = <<>>

\* the local variables of invocation q
Frame(q) ==
  <<terraformOutputs[q], apiKey[q], systemPrompt[q], network[q], resp[q], body[q],
    log[q], result[q]>>

\* what invocation p returns, from its own input, environment and response
OwnResult(p) ==
  IF Failed(p) THEN <<>> ELSE TrimSpace(ContentOf(ChoicesOf(body[p])[1]))

\* what invocation p sends, from its own input and environment
OwnRequests(p) ==
  IF Disabled(p) THEN <<>>
  ELSE <<NewRequest([model |-> openRouterModel,
                     messages |-> << [role |-> "system", content |-> PromptAskedFor],
                                     [role |-> "user", content |-> JoinedPlans(terraformOutputs[p])] >>],
                    Getenv(openRouterAPIKeyEnv)).req>>

\* C9: under every interleaving a step of one invocation leaves the local
\* variables of every other invocation alone, and what an invocation has sent
\* and what it returns are what its own input, environment and response give.
InvocationsIndependent ==
  /\ [][\A q \in Procs : pc'[q] = pc[q] => Frame(q)' = Frame(q)]_vars
  /\ [](\A p \in Procs :
          /\ pc[p] # "idle" => network[p] = OwnRequests(p)
          /\ Returned(p) => result[p] = OwnResult(p))

\* two invocations with different inputs and different responses, one of
\* which has returned its summary while the other holds a body
InvocationsIndependentWitness ==
  \E p \in Procs : \E q \in Procs \ {p} :
    /\ Returned(p)
    /\ result[p] = <<"t">>
    /\ pc[q] = "Extract"
    /\ terraformOutputs[q] # terraformOutputs[p]
    /\ body[q] = JResponse(JArr(<<JChoice(JMessage(JStr(<<" ", "s">>)))>>), JAbsent)

\* C10: an invocation returns a non-empty string only if its input and the
\* API key were non-empty, it sent its request, read a body with status 200
\* that decoded, with the error field absent or null and at least one choice;
\* the string is then the content of the first choice without its surrounding
\* white space, and neither starts nor ends with white space.
NonEmptyMeansSuccess ==
  \A p \in Procs :
    Returned(p) /\ result[p] # <<>> =>
      /\ Len(terraformOutputs[p]) > 0
      /\ ~KeyMissing
      /\ Len(network[p]) = 1
      /\ resp[p] # NoResponse
      /\ body[p] # NoBody
      /\ resp[p].StatusCode = 200
      /\ body[p].k = "obj"
      /\ ~UnmarshalErr(body[p])
      /\ body[p].error.k \in {"absent", "null"}
      /\ ChoicesOf(body[p]) # <<>>
      /\ IsTrimOf(result[p], ContentOf(ChoicesOf(body[p])[1]))
      /\ ~IsSpace(result[p][1])
      /\ ~IsSpace(Last(result[p]))

\* a summary returned from text between a line feed and a tab
NonEmptyMeansSuccessWitness ==
  \E p \in Procs :
    /\ Returned(p)
    /\ Decoded(p)
    /\ ChoicesOf(body[p]) # <<>>
    /\ ContentOf(ChoicesOf(body[p])[1]) = <<"\n", "s", "\t">>
    /\ body[p].error.k = "null"
    /\ result[p] = <<"s">>

====
